---- MODULE Spec2Model ----
(***************************************************************************)
(* Free-window comparison engine of bot/services/schedule.py              *)
(* (ScheduleService and ScheduleCache) as a state machine.                 *)
(*                                                                         *)
(* Spec         the interval engine: lesson lists of the compared          *)
(*              entities -> _get_busy_intervals ->                         *)
(*              _get_group_location_timeline ->                            *)
(*              _find_free_intervals_with_location.                        *)
(* SpecCompare  compare_groups / compare_groups_period running over        *)
(*              fetch_schedule, ScheduleCache and the upstream API.        *)
(* SpecFetch    concurrent fetch_schedule coroutines and cleanup_daily     *)
(*              over ScheduleCache, on one event loop.                     *)
(* SpecFilter   get_schedule_for_date over a drawn weekday table.          *)
(*                                                                         *)
(* Encodings.  A clock string "HH:MM" is the pair <<HH, MM>> and a grid    *)
(* entry "HH:MM-HH:MM" the pair of its two clock strings, so that          *)
(* split('-') is the projection and _time_to_minutes still does the        *)
(* arithmetic.  Python's None label is the record NoneLabel, a location    *)
(* string s used as a label is LocLabel(s), and the f-string               *)
(* "pereezd_{a}_to_{b}" (Cyrillic in the source) is TransitLabel(a, b);    *)
(* startswith("pereezd_") is the test of the tag.  The window label        *)
(* "Lyubaya" (Cyrillic in the source, "any") is the string AnyLabel.       *)
(***************************************************************************)
EXTENDS Integers, Sequences, FiniteSets, TLC

(***************************************************************************)
(* Bounds of the model.                                                    *)
(***************************************************************************)
\* most entities handed to one comparison of the interval engine
MaxEntities == 2
\* most lessons, over all entities, in one comparison of the interval engine
MaxLessons == 3

\* most groups handed to one compare_groups / compare_groups_period call
MaxGroups == 2
\* the clock stops at this hour
MaxNow == 24

\* pair numbers the lessons carry: 0 has no entry in the time grid
PairNumbers == {0, 1, 2, 7}
\* location strings the lessons carry ("" = no location recorded)
Locations == {"", "A", "B"}
\* min_duration arguments
MinDurations == {0, 60, 720}

\* the clock moves in steps of half a schedule TTL
TickHours == 12
\* group numbers
Groups == {"g1", "g2"}
\* the datetimes of the calls: the midnights that begin a Monday and the
\* Tuesday after it, and that Tuesday at 06:00
Dates == {0, 24, 30}
\* min_duration arguments of the calls
CompareMinDurations == {0, 60}

\* concurrent fetch_schedule calls
MaxFetchers == 2

\* pairs in the weekday table the lesson filter is given
MaxPairs == 2
\* slot keys of that table
SlotKeys == {"1", "2"}
\* the datetimes the filter is asked about: Monday of week 0 at 00:00 and at
\* 10:00, the Tuesday after it, Monday of week 1 at 00:00 and at 10:00, Monday
\* of week 2
FilterDates == {0, 10, 24, 168, 178, 336}

(***************************************************************************)
(* config.py: Constants.SCHEDULE_TIMES                                     *)
(***************************************************************************)
SCHEDULE_TIMES ==
  ( "0" :> ( 1 :> << <<9, 0>>,   <<10, 30>> >> @@
             2 :> << <<10, 40>>, <<12, 10>> >> @@
             3 :> << <<12, 20>>, <<13, 50>> >> @@
             4 :> << <<14, 30>>, <<16, 0>> >>  @@
             5 :> << <<16, 10>>, <<17, 40>> >> @@
             6 :> << <<17, 50>>, <<19, 20>> >> @@
             7 :> << <<19, 30>>, <<21, 0>> >> ) @@
    "1" :> ( 1 :> << <<9, 0>>,   <<10, 30>> >> @@
             2 :> << <<10, 40>>, <<12, 10>> >> @@
             3 :> << <<12, 20>>, <<13, 50>> >> @@
             4 :> << <<14, 30>>, <<16, 0>> >>  @@
             5 :> << <<16, 10>>, <<17, 40>> >> @@
             6 :> << <<18, 20>>, <<19, 40>> >> @@
             7 :> << <<19, 50>>, <<21, 10>> >> ) @@
    "2" :> ( 1 :> << <<9, 0>>,   <<10, 30>> >> @@
             2 :> << <<10, 40>>, <<12, 10>> >> @@
             3 :> << <<12, 20>>, <<13, 50>> >> @@
             4 :> << <<14, 30>>, <<16, 0>> >>  @@
             5 :> << <<16, 10>>, <<17, 40>> >> @@
             6 :> << <<18, 30>>, <<20, 0>> >>  @@
             7 :> << <<20, 10>>, <<21, 40>> >> ) )

\* dict.get(key, default)
DictGet(d, key, default) == IF key \in DOMAIN d THEN d[key] ELSE default

\* the "" that times.get(pair_num, "") returns for a pair number off the grid
NoTimeSlot == << >>

(***************************************************************************)
(* Labels of timeline segments.                                            *)
(***************************************************************************)
NoneLabel == [kind |-> "none", loc |-> "", to |-> ""]
LocLabel(s) == [kind |-> "loc", loc |-> s, to |-> ""]
TransitLabel(a, b) == [kind |-> "transit", loc |-> a, to |-> b]
AnyLabel == "Any"

\* Python truth value of a label: None and "" are false, every other string true
Truthy(label) == label.kind = "transit" \/ (label.kind = "loc" /\ label.loc # "")

\* Python's order on the location strings of the model
StrRank == ("" :> 0 @@ "A" :> 1 @@ "B" :> 2)
StrLess(a, b) == StrRank[a] < StrRank[b]

(***************************************************************************)
(* ScheduleService._time_to_minutes                                        *)
(***************************************************************************)
time_to_minutes(time_str) == time_str[1] * 60 + time_str[2]

day_start == time_to_minutes(<<9, 0>>)
day_end == time_to_minutes(<<21, 0>>)

(***************************************************************************)
(* ScheduleService._get_busy_intervals                                     *)
(***************************************************************************)
\* the loop over the lessons: one (start, end, location) per lesson on the grid
RECURSIVE CollectIntervals(_, _)
CollectIntervals(lessons, times) ==
  IF lessons = << >> THEN << >>
  ELSE LET lesson == Head(lessons)
           time_slot == DictGet(times, lesson.pair_number, NoTimeSlot)
           rest == CollectIntervals(Tail(lessons), times)
       IN  IF time_slot = NoTimeSlot THEN rest
           ELSE << << time_to_minutes(time_slot[1]),
                      time_to_minutes(time_slot[2]),
                      lesson.location >> >> \o rest

\* Python's order on (start, end, location) tuples
TupleLess(a, b) ==
  \/ a[1] < b[1]
  \/ a[1] = b[1] /\ a[2] < b[2]
  \/ a[1] = b[1] /\ a[2] = b[2] /\ StrLess(a[3], b[3])

\* list.sort(): stable insertion of x into the sorted sequence s
RECURSIVE InsertTuple(_, _)
InsertTuple(s, x) ==
  IF s = << >> THEN << x >>
  ELSE IF TupleLess(x, Head(s)) THEN << x >> \o s
  ELSE << Head(s) >> \o InsertTuple(Tail(s), x)

RECURSIVE SortTuples(_)
SortTuples(s) ==
  IF s = << >> THEN << >>
  ELSE InsertTuple(SortTuples(SubSeq(s, 1, Len(s) - 1)), s[Len(s)])

Max(a, b) == IF a >= b THEN a ELSE b

\* MergeIntervals merging overlapping or touching intervals whatever their
\* locations
RECURSIVE MergeIntervalsAnyLocation(_, _)
MergeIntervalsAnyLocation(merged, rest) ==
  IF rest = << >> THEN merged
  ELSE LET current == Head(rest)
           last == merged[Len(merged)]
       IN  IF current[1] <= last[2]
           THEN MergeIntervalsAnyLocation(
                  [merged EXCEPT ![Len(merged)] =
                     << last[1], Max(last[2], current[2]), last[3] >>],
                  Tail(rest))
           ELSE MergeIntervalsAnyLocation(Append(merged, current), Tail(rest))

\* the merge loop over intervals[1:]
RECURSIVE MergeIntervals(_, _)
MergeIntervals(merged, rest) ==
  IF rest = << >> THEN merged
  ELSE LET current == Head(rest)
           last == merged[Len(merged)]
       IN  IF current[1] <= last[2] /\ current[3] = last[3]
           THEN MergeIntervals(
                  [merged EXCEPT ![Len(merged)] =
                     << last[1], Max(last[2], current[2]), last[3] >>],
                  Tail(rest))
           ELSE MergeIntervals(Append(merged, current), Tail(rest))

\* get_busy_intervals giving a lesson off the grid the times of slot 1
get_busy_intervals_defaulting(lessons, schedule_type) ==
  LET times == DictGet(SCHEDULE_TIMES, schedule_type, << >>)
      placed == [n \in DOMAIN lessons |->
                   IF lessons[n].pair_number \in DOMAIN times THEN lessons[n]
                   ELSE [lessons[n] EXCEPT !.pair_number = 1]]
      sorted == SortTuples(CollectIntervals(placed, times))
  IN  IF sorted = << >> THEN << >>
      ELSE MergeIntervals(<< sorted[1] >>, Tail(sorted))

get_busy_intervals(lessons, schedule_type) ==
  LET times == DictGet(SCHEDULE_TIMES, schedule_type, << >>)
      intervals == CollectIntervals(lessons, times)
      sorted == SortTuples(intervals)
  IN  IF intervals = << >> THEN << >>
      ELSE MergeIntervals(<< sorted[1] >>, Tail(sorted))

(***************************************************************************)
(* ScheduleService._get_group_location_timeline                            *)
(***************************************************************************)
\* sorted(busy_intervals, key=lambda x: x[0]): stable, by start only
RECURSIVE InsertByStart(_, _)
InsertByStart(s, x) ==
  IF s = << >> THEN << x >>
  ELSE IF x[1] < Head(s)[1] THEN << x >> \o s
  ELSE << Head(s) >> \o InsertByStart(Tail(s), x)

RECURSIVE SortByStart(_)
SortByStart(s) ==
  IF s = << >> THEN << >>
  ELSE InsertByStart(SortByStart(SubSeq(s, 1, Len(s) - 1)), s[Len(s)])

\* locations_in_day without the "if loc" filter
locations_in_day_unfiltered(busy_intervals) ==
  { busy_intervals[k][3] : k \in DOMAIN busy_intervals }

\* set(loc for _, _, loc in busy_intervals if loc)
locations_in_day(busy_intervals) ==
  { busy_intervals[k][3] : k \in { j \in DOMAIN busy_intervals : busy_intervals[j][3] # "" } }

\* AfterInterval labelling the gap to the next interval with the location of
\* the next interval, never with a transit label
AfterIntervalArriving(sorted_intervals, i, current_time, dayEnd) ==
  IF i < Len(sorted_intervals)
  THEN << << sorted_intervals[i][2], sorted_intervals[i + 1][1],
             LocLabel(sorted_intervals[i + 1][3]) >> >>
  ELSE IF current_time < dayEnd
       THEN << << current_time, dayEnd, LocLabel(sorted_intervals[i][3]) >> >>
       ELSE << >>

\* what the walk appends after the busy interval i
AfterInterval(sorted_intervals, i, current_time, dayEnd) ==
  LET end == sorted_intervals[i][2]
      location == sorted_intervals[i][3]
  IN  IF i < Len(sorted_intervals)
      THEN LET next_start == sorted_intervals[i + 1][1]
               next_location == sorted_intervals[i + 1][3]
           IN  IF next_location # location
               THEN << << end, next_start, TransitLabel(location, next_location) >> >>
               ELSE << << end, next_start, LocLabel(location) >> >>
      ELSE IF current_time < dayEnd
           THEN << << current_time, dayEnd, LocLabel(location) >> >>
           ELSE << >>

\* the for loop over enumerate(sorted_intervals), from index i on
RECURSIVE TimelineWalk(_, _, _, _, _)
TimelineWalk(sorted_intervals, i, timeline, current_time, dayEnd) ==
  IF i > Len(sorted_intervals) THEN timeline
  ELSE LET start == sorted_intervals[i][1]
           end == sorted_intervals[i][2]
           location == sorted_intervals[i][3]
           before == IF current_time < start
                     THEN << << current_time, start, LocLabel(location) >> >>
                     ELSE << >>
           lesson == << << start, end, LocLabel(location) >> >>
       IN  TimelineWalk(sorted_intervals, i + 1,
                        timeline \o before \o lesson
                          \o AfterInterval(sorted_intervals, i, end, dayEnd),
                        end, dayEnd)

\* EmptyDayTimeline with the "no location recorded" label in place of None
EmptyDayTimelineAsUnknown(dayStart, dayEnd) == << << dayStart, dayEnd, LocLabel("") >> >>

\* the timeline of an entity that has no busy interval
EmptyDayTimeline(dayStart, dayEnd) == << << dayStart, dayEnd, NoneLabel >> >>

get_group_location_timeline(busy_intervals, dayStart, dayEnd) ==
  IF busy_intervals = << >> THEN EmptyDayTimeline(dayStart, dayEnd)
  ELSE IF locations_in_day(busy_intervals) = {}
       THEN << << dayStart, dayEnd, LocLabel("") >> >>
       ELSE TimelineWalk(SortByStart(busy_intervals), 1, << >>, dayStart, dayEnd)

(***************************************************************************)
(* ScheduleService._find_free_intervals_with_location                      *)
(***************************************************************************)
\* sorted(set): the ascending sequence of the elements of a set of integers
RECURSIVE SortedSeq(_)
SortedSeq(S) ==
  IF S = {} THEN << >>
  ELSE LET m == CHOOSE x \in S : \A y \in S : x <= y
       IN  << m >> \o SortedSeq(S \ {m})

BuildTimelines(all_busy_intervals) ==
  [g \in DOMAIN all_busy_intervals |->
     get_group_location_timeline(all_busy_intervals[g], day_start, day_end)]

\* the set of every segment start and end, with the day bounds, sorted
TimePoints(tls) ==
  SortedSeq({day_start, day_end}
            \cup UNION { UNION { { tls[g][k][1], tls[g][k][2] } : k \in DOMAIN tls[g] }
                         : g \in DOMAIN tls })

\* TooShort with the length test left out
TooShortNever(interval_start, interval_end, minDuration) == FALSE

\* interval_end - interval_start < min_duration: the slice is too short
TooShort(interval_start, interval_end, minDuration) ==
  interval_end - interval_start < minDuration

\* the inner loop over one timeline: the label of the first segment that
\* covers the slice, or << >> when the loop ends without a break
RECURSIVE FirstCover(_, _, _)
FirstCover(timeline, interval_start, interval_end) ==
  IF timeline = << >> THEN << >>
  ELSE LET seg == Head(timeline)
       IN  IF seg[1] <= interval_start /\ seg[2] >= interval_end
           THEN << seg[3] >>
           ELSE FirstCover(Tail(timeline), interval_start, interval_end)

\* groups_locations, as the sequence of the groups that got a label
\* (list(groups_locations.values()) is in insertion order: by group index)
RECURSIVE GroupsLocations(_, _, _, _)
GroupsLocations(tls, g, interval_start, interval_end) ==
  IF g > Len(tls) THEN << >>
  ELSE FirstCover(tls[g], interval_start, interval_end)
         \o GroupsLocations(tls, g + 1, interval_start, interval_end)

\* loc and loc.startswith("pereezd_")
IsTransit(loc) == Truthy(loc) /\ loc.kind = "transit"

\* AnyTransit with the relocation filter left out
AnyTransitNever(locations) == FALSE

AnyTransit(locations) == \E k \in DOMAIN locations : IsTransit(locations[k])

\* IsAnyBusy with the in-class test left out
IsAnyBusyNever(all_busy_intervals, interval_start, interval_end) == FALSE

\* the is_any_busy loops: some busy interval of some group meets the slice
IsAnyBusy(all_busy_intervals, interval_start, interval_end) ==
  \E g \in DOMAIN all_busy_intervals :
    \E k \in DOMAIN all_busy_intervals[g] :
      /\ all_busy_intervals[g][k][1] < interval_end
      /\ all_busy_intervals[g][k][2] > interval_start

\* all(loc is None for loc in locations)
AllNone(locations) == \A k \in DOMAIN locations : locations[k] = NoneLabel

\* SameLocation without the truth test of the label
SameLocationEmptyToo(locations) ==
  Cardinality({ locations[k] : k \in DOMAIN locations }) = 1

\* SameLocation without the comparison of the labels
SameLocationFirstOnly(locations) == Truthy(locations[1])

\* len(set(locations)) == 1 and locations[0]
SameLocation(locations) ==
  /\ Cardinality({ locations[k] : k \in DOMAIN locations }) = 1
  /\ Truthy(locations[1])

\* ParticipantCount fixed at two ("both groups")
ParticipantCountTwo(tls) == 2

\* the participant count written into a window: len(timelines)
ParticipantCount(tls) == Len(tls)

\* the body of the loop over the slices: the windows slice i contributes
SliceWindows(all_busy_intervals, tls, time_points, i, minDuration) ==
  LET interval_start == time_points[i]
      interval_end == time_points[i + 1]
      locations == GroupsLocations(tls, 1, interval_start, interval_end)
  IN  IF TooShort(interval_start, interval_end, minDuration) THEN << >>
      ELSE IF Len(locations) # Len(tls) THEN << >>
      ELSE IF AnyTransit(locations) THEN << >>
      ELSE IF IsAnyBusy(all_busy_intervals, interval_start, interval_end) THEN << >>
      ELSE IF AllNone(locations)
           THEN << [start |-> interval_start, end |-> interval_end,
                    label |-> AnyLabel, count |-> ParticipantCount(tls)] >>
      ELSE IF SameLocation(locations)
           THEN << [start |-> interval_start, end |-> interval_end,
                    label |-> locations[1].loc, count |-> ParticipantCount(tls)] >>
      ELSE << >>

RECURSIVE SliceLoop(_, _, _, _, _)
SliceLoop(all_busy_intervals, tls, time_points, i, minDuration) ==
  IF i > Len(time_points) - 1 THEN << >>
  ELSE SliceWindows(all_busy_intervals, tls, time_points, i, minDuration)
         \o SliceLoop(all_busy_intervals, tls, time_points, i + 1, minDuration)

\* find_free_intervals_with_location putting every window found in front of
\* the ones before it
find_free_intervals_newest_first(all_busy_intervals, minDuration) ==
  LET tls == BuildTimelines(all_busy_intervals)
      found == SliceLoop(all_busy_intervals, tls, TimePoints(tls), 1, minDuration)
  IN  [i \in 1..Len(found) |-> found[Len(found) + 1 - i]]

find_free_intervals_with_location(all_busy_intervals, minDuration) ==
  LET tls == BuildTimelines(all_busy_intervals)
  IN  SliceLoop(all_busy_intervals, tls, TimePoints(tls), 1, minDuration)

\* seeds of the order a set is iterated in
HashSeeds == {0, 1, 2}

\* the order in which iteration over a set of minutes yields its elements:
\* the language leaves it to the implementation; a seed picks one order
RECURSIVE SetIteration(_, _)
SetIteration(S, seed) ==
  IF S = {} THEN << >>
  ELSE LET slot(x) == ((x \div 10) * (2 * seed + 1)) % 8
           m == CHOOSE x \in S :
                  \A y \in S : slot(x) < slot(y) \/ (slot(x) = slot(y) /\ x <= y)
       IN  << m >> \o SetIteration(S \ {m}, seed)

RECURSIVE InsertInt(_, _)
InsertInt(s, x) ==
  IF s = << >> THEN << x >>
  ELSE IF x < Head(s) THEN << x >> \o s
  ELSE << Head(s) >> \o InsertInt(Tail(s), x)

\* SortInts leaving the list as the set was iterated
SortIntsLeftOut(s) == s

\* sorted(time_points)
RECURSIVE SortInts(_)
SortInts(s) ==
  IF s = << >> THEN << >>
  ELSE InsertInt(SortInts(Tail(s)), Head(s))

\* lines 710-716 with the iteration order of the set written out
TimePointsIterated(tls, seed) ==
  SortInts(SetIteration(
    {day_start, day_end}
      \cup UNION { UNION { { tls[g][k][1], tls[g][k][2] } : k \in DOMAIN tls[g] }
                   : g \in DOMAIN tls },
    seed))

\* _find_free_intervals_with_location in a run in which sets are iterated in
\* the order of the seed
find_free_intervals_iterated(all_busy_intervals, minDuration, seed) ==
  LET tls == BuildTimelines(all_busy_intervals)
  IN  SliceLoop(all_busy_intervals, tls, TimePointsIterated(tls, seed), 1, minDuration)

(***************************************************************************)
(* Schedule documents.  A validity string "YYYY-MM-DD" is DateStr(n), n    *)
(* the day it names counted from a Monday; a string strptime rejects is    *)
(* BadDateStr; a missing, None or empty one is NoDateStr.  A datetime is   *)
(* the number of hours from the midnight that begins day 0.                *)
(***************************************************************************)
DateStr(n) == [kind |-> "date", day |-> n]
BadDateStr == [kind |-> "bad", day |-> 0]
NoDateStr == [kind |-> "absent", day |-> 0]

\* what fetch_schedule returns without data (None, or an empty response)
NoData == [none |-> TRUE]

Pair(l, sd, ed) == [location |-> l, start_date |-> sd, end_date |-> ed]

\* two documents the upstream API serves; the keys of a day are strings, in
\* the order of the JSON object
DocX ==
  [monday |-> << << "2", << Pair("A", NoDateStr, NoDateStr) >> >>,
                 << "1", << Pair("B", DateStr(0), DateStr(0)) >> >> >>,
   sunday |-> << >>]
DocY ==
  [monday |-> << << "2", << Pair("A", NoDateStr, NoDateStr) >> >> >>,
   tuesday |-> << << "1", << Pair("", BadDateStr, DateStr(0)) >> >> >>]
UpstreamDocs == {DocX, DocY}

\* int(pair_num)
PairKeyInt == ("1" :> 1 @@ "2" :> 2 @@ "3" :> 3 @@ "4" :> 4 @@ "5" :> 5 @@ "6" :> 6 @@ "7" :> 7)

\* datetime.strptime(s, "%Y-%m-%d") of a string it accepts: the midnight that
\* begins the day named
strptime(s) == s.day * 24

\* datetime.date(): the calendar day of a datetime
date_of(dt) == dt \div 24

\* datetime.weekday(): 0 = Monday
weekday(date) == date_of(date) % 7

weekday_names ==
  (0 :> "monday" @@ 1 :> "tuesday" @@ 2 :> "wednesday" @@ 3 :> "thursday" @@
   4 :> "friday" @@ 5 :> "saturday" @@ 6 :> "sunday")

(***************************************************************************)
(* ScheduleService._is_lesson_on_date                                      *)
(***************************************************************************)
\* InValidity comparing the datetimes themselves
InValidityByDatetime(start_date, date, end_date) ==
  start_date <= date /\ date <= end_date

\* start_date.date() <= date.date() <= end_date.date()
InValidity(start_date, date, end_date) ==
  date_of(start_date) <= date_of(date) /\ date_of(date) <= date_of(end_date)

\* not date_str: the field is missing, None or empty
IsAbsent(date_str) == date_str.kind = "absent"

\* RaisesValueError with no string rejected
RaisesValueErrorNever(date_str) == FALSE

\* strptime raises ValueError on the string
RaisesValueError(date_str) == date_str.kind = "bad"

is_lesson_on_date(lesson, date) ==
  LET start_date_str == lesson.start_date
      end_date_str == lesson.end_date
  IN  IF IsAbsent(start_date_str) \/ IsAbsent(end_date_str) THEN TRUE
      ELSE IF RaisesValueError(start_date_str) \/ RaisesValueError(end_date_str) THEN TRUE
      ELSE InValidity(strptime(start_date_str), date, strptime(end_date_str))

(***************************************************************************)
(* ScheduleService.get_schedule_for_date                                   *)
(***************************************************************************)
\* the inner loop: the pairs of one slot that are held on the date, each
\* copied and given its pair_number
RECURSIVE PairsOnDate(_, _, _)
PairsOnDate(pair_list, pair_num, date) ==
  IF pair_list = << >> THEN << >>
  ELSE LET pair == Head(pair_list)
           rest == PairsOnDate(Tail(pair_list), pair_num, date)
       IN  IF is_lesson_on_date(pair, date)
           THEN << ("pair_number" :> PairKeyInt[pair_num]) @@ pair >> \o rest
           ELSE rest

\* the outer loop over day_data.items()
RECURSIVE DayLessons(_, _)
DayLessons(day_data, date) ==
  IF day_data = << >> THEN << >>
  ELSE PairsOnDate(Head(day_data)[2], Head(day_data)[1], date)
         \o DayLessons(Tail(day_data), date)

\* SortByPair leaving the lessons in the order of the table
SortByPairLeftOut(s) == s

\* lessons.sort(key=pair_number): stable
RECURSIVE InsertByPair(_, _)
InsertByPair(s, x) ==
  IF s = << >> THEN << x >>
  ELSE IF x.pair_number < Head(s).pair_number THEN << x >> \o s
  ELSE << Head(s) >> \o InsertByPair(Tail(s), x)

RECURSIVE SortByPair(_)
SortByPair(s) ==
  IF s = << >> THEN << >>
  ELSE InsertByPair(SortByPair(SubSeq(s, 1, Len(s) - 1)), s[Len(s)])

\* PairLeft with the item assignment of line 170 made to the dict of the
\* document, as it would be without the copy of line 169
PairLeftAnnotated(pair, pair_num, date) ==
  IF is_lesson_on_date(pair, date)
  THEN ("pair_number" :> PairKeyInt[pair_num]) @@ pair
  ELSE pair

\* the dict pair of the document, as the body of the inner loop leaves it:
\* pair.copy() is a new dict, and the item assignment goes to the new dict
PairLeft(pair, pair_num, date) == pair

\* the document schedule_data as get_schedule_for_date leaves it: the caller
\* and the cache hold the same object
document_after(schedule_data, date) ==
  IF schedule_data = NoData THEN schedule_data
  ELSE LET name == weekday_names[weekday(date)]
       IN  IF name \notin DOMAIN schedule_data THEN schedule_data
           ELSE LET day_data == schedule_data[name]
                    left == [m \in DOMAIN day_data |->
                               << day_data[m][1],
                                  [n \in DOMAIN day_data[m][2] |->
                                     PairLeft(day_data[m][2][n], day_data[m][1], date)] >>]
                IN  [schedule_data EXCEPT ![name] = left]

get_schedule_for_date(schedule_data, date) ==
  IF schedule_data = NoData THEN << >>
  ELSE LET day_data == DictGet(schedule_data, weekday_names[weekday(date)], << >>)
       IN  IF day_data = << >> THEN << >>
           ELSE SortByPair(DayLessons(day_data, date))

(***************************************************************************)
(* ScheduleCache: a dict from key to (data, expires_at); the clock counts  *)
(* hours.                                                                  *)
(***************************************************************************)
EmptyCache == << >>

\* f"schedule:{group}:{is_session}"
cache_key(group, is_session) == << "schedule", group, is_session >>

\* CacheGetValue with the expiry test left out
CacheGetValueIgnoringExpiry(store, key, t) ==
  IF key \in DOMAIN store THEN store[key].data ELSE NoData

\* ScheduleCache.get: the value returned (NoData for None) ...
CacheGetValue(store, key, t) ==
  IF key \in DOMAIN store /\ t < store[key].expires_at THEN store[key].data ELSE NoData

\* CacheGetStore with the deletion left out
CacheGetStoreKeeping(store, key, t) == store

\* ... and the store it leaves: an entry found expired is deleted
CacheGetStore(store, key, t) ==
  IF key \in DOMAIN store /\ ~(t < store[key].expires_at)
  THEN [k \in DOMAIN store \ {key} |-> store[k]]
  ELSE store

\* CacheSet storing nothing
CacheSetNothing(store, key, data, ttl_hours, t) == store

\* ScheduleCache.set
CacheSet(store, key, data, ttl_hours, t) ==
  [k \in DOMAIN store \cup {key} |->
     IF k = key THEN [data |-> data, expires_at |-> t + ttl_hours] ELSE store[k]]

\* CacheClear leaving the entries in
CacheClearNothing(store) == store

\* ScheduleCache.clear
CacheClear(store) == EmptyCache

(***************************************************************************)
(* compare_groups and compare_groups_period                                *)
(***************************************************************************)
NoResult == [kind |-> "none", group |-> "", windows |-> << >>]
\* "at least 2 groups are needed"
InvalidResult == [kind |-> "invalid", group |-> "", windows |-> << >>]
\* "could not get the schedule of group {group}"
UnavailableResult(group) == [kind |-> "unavailable", group |-> group, windows |-> << >>]
OkResult(windows) == [kind |-> "ok", group |-> "", windows |-> windows]

IdleCall ==
  [pc |-> "idle", kind |-> "single", groups |-> << >>, start_date |-> 0, end_date |-> 0,
   min_duration |-> 0, is_session |-> FALSE, i |-> 1, schedules |-> << >>,
   fetched |-> << >>, requests |-> 0, runs |-> 0, result |-> NoResult]

\* TooFewGroups with the limit off by one
TooFewGroupsOffByOne(groups) == Len(groups) < 1

\* len(groups) < 2
TooFewGroups(groups) == Len(groups) < 2

\* FetchFailed with the test left out
FetchFailedNever(schedule_data) == FALSE

\* not schedule_data
FetchFailed(schedule_data) == schedule_data = NoData

\* the windows of one date: lines 871-882 and 996-1010
DateWindows(docs_or_lessons, minDuration) ==
  find_free_intervals_with_location(
    [g \in DOMAIN docs_or_lessons |-> get_busy_intervals(docs_or_lessons[g], "0")],
    minDuration)

\* the while loop of compare_groups_period from current_date on: the dates
\* that have windows, each with its windows
\* PeriodContinues with the end date left out of the range
PeriodContinuesExclusive(current_date, end_date) == current_date < end_date

\* while current_date <= end_date
PeriodContinues(current_date, end_date) == current_date <= end_date

RECURSIVE PeriodLoop(_, _, _, _)
PeriodLoop(schedules, current_date, end_date, minDuration) ==
  IF ~PeriodContinues(current_date, end_date) THEN << >>
  ELSE LET day_schedules ==
             [g \in DOMAIN schedules |-> get_schedule_for_date(schedules[g], current_date)]
           free_intervals_with_loc == DateWindows(day_schedules, minDuration)
           rest == PeriodLoop(schedules, current_date + 24, end_date, minDuration)
       IN  IF free_intervals_with_loc # << >>
           THEN << [date |-> current_date, windows |-> free_intervals_with_loc] >> \o rest
           ELSE rest

\* days_processed
DaysProcessed(start_date, end_date) ==
  IF start_date <= end_date THEN (end_date - start_date) \div 24 + 1 ELSE 0

\* the part of either function after its fetch loop
FinishCompare(c) ==
  IF c.kind = "single"
  THEN [c EXCEPT !.pc = "done", !.runs = 1,
                 !.result = OkResult(DateWindows(c.schedules, c.min_duration))]
  ELSE [c EXCEPT !.pc = "done", !.runs = DaysProcessed(c.start_date, c.end_date),
                 !.result = OkResult(PeriodLoop(c.schedules, c.start_date, c.end_date,
                                                c.min_duration))]

\* one turn of the fetch loop once fetch_schedule has returned schedule_data:
\* abort, or keep the schedule (compare_groups keeps the lessons of the date,
\* compare_groups_period the document) and go on to the next group
AfterFetch(c, schedule_data) ==
  LET group == c.groups[c.i]
      logged == Append(c.fetched, [group |-> group, ok |-> schedule_data # NoData])
  IN  IF FetchFailed(schedule_data)
      THEN [c EXCEPT !.pc = "done", !.fetched = logged,
                     !.result = UnavailableResult(group)]
      ELSE [c EXCEPT !.fetched = logged, !.i = @ + 1,
                     !.schedules = Append(@, IF c.kind = "single"
                                             THEN get_schedule_for_date(schedule_data, c.start_date)
                                             ELSE schedule_data)]

\* the fetch loop from group c.i on, up to the first await that suspends it
\* (fetch_schedule missing the cache and calling the API) or to the end of the
\* function; a cache hit returns without suspending
RECURSIVE CompareLoop(_, _, _)
CompareLoop(c, store, t) ==
  IF c.pc = "done" THEN [call |-> c, cache |-> store]
  ELSE IF c.i > Len(c.groups) THEN [call |-> FinishCompare(c), cache |-> store]
  ELSE LET key == cache_key(c.groups[c.i], c.is_session)
           cached == CacheGetValue(store, key, t)
           store2 == CacheGetStore(store, key, t)
       IN  IF cached # NoData
           THEN CompareLoop(AfterFetch(c, cached), store2, t)
           ELSE [call |-> [c EXCEPT !.pc = "awaiting", !.requests = @ + 1],
                 cache |-> store2]

\* the group lists of the calls
GroupLists == UNION { [1..n -> Groups] : n \in 0..MaxGroups }

(***************************************************************************)
(* State.                                                                  *)
(***************************************************************************)
VARIABLES
  pc,                 \* interval engine: "input" while the lesson lists are
                      \* being drawn, "done" once the pipeline has run
  lessons,            \* per compared entity, its lessons of the day as
                      \* get_schedule_for_date returns them
  min_duration,       \* the min_duration argument of the run
  all_busy_intervals, \* per entity, the result of _get_busy_intervals
  timelines,          \* per entity, the result of _get_group_location_timeline
  free_intervals,     \* the result of _find_free_intervals_with_location
  cache,              \* ScheduleCache.cache of the service
  now,                \* datetime.now(), in hours
  call,               \* the running compare_groups / compare_groups_period call
  fetchers,           \* per concurrent fetch_schedule call, its position and locals
  running,            \* the coroutine the event loop is running between two
                      \* awaits, 0 when it is free to pick one
  history,            \* the ScheduleCache operations completed so far, in order
  filter_pc,          \* lesson filter: "input" while the table is being
                      \* drawn, "done" once get_schedule_for_date has run
  week_schedule,      \* the document given to get_schedule_for_date
  query_date,         \* the datetime given to it
  day_lessons         \* the list it returned

engineVars == << pc, lessons, min_duration, all_busy_intervals, timelines, free_intervals >>
serviceVars == << cache, now, call >>
fetchVars == << fetchers, running, history >>
filterVars == << filter_pc, week_schedule, query_date, day_lessons >>
vars == << engineVars, serviceVars, fetchVars, filterVars >>

Lesson(n, l) == [pair_number |-> n, location |-> l]

RECURSIVE SumLen(_)
SumLen(ss) == IF ss = << >> THEN 0 ELSE Len(Head(ss)) + SumLen(Tail(ss))

InitService ==
  /\ cache = EmptyCache
  /\ now = 0
  /\ call = IdleCall

InitEngine ==
  /\ pc = "input"
  /\ lessons = << >>
  /\ min_duration = 0
  /\ all_busy_intervals = << >>
  /\ timelines = << >>
  /\ free_intervals = << >>

\* a fetch_schedule call that has not started: its position, its arguments,
\* the requests it has sent and what it returned; missed is the number in the
\* history of the cache.get that missed, concurrent the calls found awaiting a
\* request for the same key when this one was resumed
IdleFetch ==
  [pc |-> "idle", group |-> "", is_session |-> FALSE, found |-> FALSE,
   requests |-> 0, result |-> NoData, missed |-> 0, concurrent |-> {}]

InitFetch ==
  /\ fetchers = [f \in 1..MaxFetchers |-> IdleFetch]
  /\ running = 0
  /\ history = << >>

\* the Tuesday table of the document the filter is given
TuesdayTable == << << "1", << Pair("B", NoDateStr, NoDateStr) >> >> >>

InitFilter ==
  /\ filter_pc = "input"
  /\ week_schedule = [monday |-> << >>, tuesday |-> TuesdayTable]
  /\ query_date = 0
  /\ day_lessons = << >>

\* one more entity to compare, so far without lessons
AddEntity ==
  /\ pc = "input"
  /\ Len(lessons) < MaxEntities
  /\ lessons' = Append(lessons, << >>)
  /\ UNCHANGED << pc, min_duration, all_busy_intervals, timelines, free_intervals >>
  /\ UNCHANGED << serviceVars, fetchVars, filterVars >>

\* one more lesson of entity g; get_schedule_for_date returns a day's lessons
\* sorted by pair_number, so a lesson is added at the end, with a pair number
\* not below the last one's
AddLesson(g, n, l) ==
  /\ pc = "input"
  /\ g \in DOMAIN lessons
  /\ SumLen(lessons) < MaxLessons
  /\ lessons[g] # << >> => lessons[g][Len(lessons[g])].pair_number <= n
  /\ lessons' = [lessons EXCEPT ![g] = Append(@, Lesson(n, l))]
  /\ UNCHANGED << pc, min_duration, all_busy_intervals, timelines, free_intervals >>
  /\ UNCHANGED << serviceVars, fetchVars, filterVars >>

\* compare_groups, lines 871-882: the busy intervals of every entity under
\* schedule_type '0', then the free windows
RunEngine(md) ==
  /\ pc = "input"
  /\ pc' = "done"
  /\ min_duration' = md
  /\ all_busy_intervals' = [g \in DOMAIN lessons |-> get_busy_intervals(lessons[g], "0")]
  /\ timelines' = BuildTimelines(all_busy_intervals')
  /\ free_intervals' = find_free_intervals_with_location(all_busy_intervals', md)
  /\ UNCHANGED lessons
  /\ UNCHANGED << serviceVars, fetchVars, filterVars >>

Init == InitEngine /\ InitService /\ InitFetch /\ InitFilter

Next ==
  \/ AddEntity
  \/ \E g \in 1..MaxEntities, n \in PairNumbers, l \in Locations : AddLesson(g, n, l)
  \/ \E md \in MinDurations : RunEngine(md)

Spec == Init /\ [][Next]_vars

(***************************************************************************)
(* The service: one caller of compare_groups / compare_groups_period at a  *)
(* time over the cache, the upstream API, the clock and the daily cleanup. *)
(***************************************************************************)
\* a handler calls compare_groups (kind "single", the date in start_date: the
\* current time or a parsed date) or compare_groups_period (with two parsed
\* dates, which are midnights); the call runs to its first suspension or to
\* its end
StartCompare(kind, groups, sd, ed, md) ==
  /\ call.pc = "idle"
  /\ kind = "single" => ed = sd
  /\ kind = "period" => sd % 24 = 0 /\ ed % 24 = 0
  /\ LET c == [IdleCall EXCEPT !.pc = "fetching", !.kind = kind, !.groups = groups,
                               !.start_date = sd, !.end_date = ed, !.min_duration = md]
     IN  IF TooFewGroups(groups)
         THEN /\ call' = [c EXCEPT !.pc = "done", !.result = InvalidResult]
              /\ cache' = cache
         ELSE LET r == CompareLoop(c, cache, now)
              IN  call' = r.call /\ cache' = r.cache
  /\ UNCHANGED << now, engineVars, fetchVars, filterVars >>

\* the API answers the request fetch_schedule is awaiting: fetch_schedule
\* caches the data if there is any and returns it, and the call runs on
ApiResponds(data) ==
  /\ call.pc = "awaiting"
  /\ LET key == cache_key(call.groups[call.i], call.is_session)
         store == IF data # NoData THEN CacheSet(cache, key, data, 24, now) ELSE cache
         r == CompareLoop(AfterFetch([call EXCEPT !.pc = "fetching"], data), store, now)
     IN  call' = r.call /\ cache' = r.cache
  /\ UNCHANGED << now, engineVars, fetchVars, filterVars >>

\* the handler takes the result; the next call can start
Return ==
  /\ call.pc = "done"
  /\ call' = IdleCall
  /\ UNCHANGED << cache, now, engineVars, fetchVars, filterVars >>

\* NotificationService.cleanup_daily clears the cache
cleanup_daily ==
  /\ cache # EmptyCache
  /\ cache' = CacheClear(cache)
  /\ UNCHANGED << now, call, engineVars, fetchVars, filterVars >>

\* time passes
Tick ==
  /\ now < MaxNow
  /\ now' = now + TickHours
  /\ UNCHANGED << cache, call, engineVars, fetchVars, filterVars >>

InitCompare == InitEngine /\ InitService /\ InitFetch /\ InitFilter

NextCompare ==
  \/ \E kind \in {"single", "period"}, groups \in GroupLists,
        sd \in Dates, ed \in Dates, md \in CompareMinDurations :
       StartCompare(kind, groups, sd, ed, md)
  \/ \E data \in UpstreamDocs \cup {NoData} : ApiResponds(data)
  \/ Return
  \/ cleanup_daily
  \/ Tick

SpecCompare == InitCompare /\ [][NextCompare]_vars

(***************************************************************************)
(* Concurrent callers of the cache: coroutines running fetch_schedule and  *)
(* the daily cleanup, on one asyncio event loop.  A coroutine keeps the    *)
(* loop from the statement that resumes it to its next await.              *)
(***************************************************************************)
\* what ScheduleCache.get raises when the key it tested is gone at line 27
KeyError == [raised |-> "KeyError"]

\* the records of the operations in history: the operation, the coroutine
\* it was called by (0 = cleanup_daily), its key, the data returned or stored,
\* the time and the ttl
OpGet(f, key, result, t) ==
  [op |-> "get", by |-> f, key |-> key, data |-> result, t |-> t, ttl |-> 0]
OpSet(f, key, data, ttl_hours, t) ==
  [op |-> "set", by |-> f, key |-> key, data |-> data, t |-> t, ttl |-> ttl_hours]
OpClear(t) ==
  [op |-> "clear", by |-> 0, key |-> << >>, data |-> NoData, t |-> t, ttl |-> 0]

FetchKey(f) == cache_key(fetchers[f].group, fetchers[f].is_session)

\* the event loop can run coroutine f: no other coroutine is between two awaits
LoopFreeFor(f) == running = 0 \/ running = f

\* YieldsLoop with a switch of coroutines after every statement
YieldsLoopAlways(p) == TRUE

\* the coroutine gives the loop up where it awaits the API (line 78), where it
\* returns and where an exception leaves it
YieldsLoop(p) == p \in {"awaiting", "returned", "raised"}

\* the coroutine holding the loop once f has moved to position p
Holder(f, p) == IF YieldsLoop(p) THEN 0 ELSE f

\* ShouldCache with the test turned round
ShouldCacheNoData(data) == data = NoData

\* ShouldCache with the test left out
ShouldCacheAlways(data) == TRUE

\* if data: (line 80)
ShouldCache(data) == data # NoData

\* fetch_schedule after cache.get has returned, as operation number n of the
\* history: return the cached data, or go on to the request and await it
AfterGet(fr, cached, n) ==
  IF cached # NoData
  THEN [fr EXCEPT !.pc = "returned", !.result = cached]
  ELSE [fr EXCEPT !.pc = "awaiting", !.requests = @ + 1, !.missed = n]

\* a handler calls fetch_schedule(group): the coroutine builds its key and
\* enters cache.get; the calls are numbered in the order they start in
FetchStart(f, group) ==
  /\ fetchers[f].pc = "idle"
  /\ f > 1 => fetchers[f - 1].pc # "idle"
  /\ LoopFreeFor(f)
  /\ fetchers' = [fetchers EXCEPT ![f] = [IdleFetch EXCEPT !.pc = "get", !.group = group]]
  /\ running' = Holder(f, "get")
  /\ UNCHANGED << cache, now, call, history, engineVars, filterVars >>

\* ScheduleCache.get, line 26: if key in self.cache; without the key get
\* returns None and fetch_schedule goes on to the request
GetContains(f) ==
  /\ fetchers[f].pc = "get"
  /\ LoopFreeFor(f)
  /\ IF FetchKey(f) \in DOMAIN cache
     THEN /\ fetchers' = [fetchers EXCEPT ![f].pc = "get_entry", ![f].found = TRUE]
          /\ history' = history
     ELSE /\ fetchers' = [fetchers EXCEPT ![f] = AfterGet(fetchers[f], NoData, Len(history) + 1)]
          /\ history' = Append(history, OpGet(f, FetchKey(f), NoData, now))
  /\ running' = Holder(f, fetchers'[f].pc)
  /\ UNCHANGED << cache, now, call, engineVars, filterVars >>

\* ScheduleCache.get, lines 27-32: read the entry, return its data or delete
\* it; then fetch_schedule, lines 66-78
GetEntry(f) ==
  /\ fetchers[f].pc = "get_entry"
  /\ LoopFreeFor(f)
  /\ IF FetchKey(f) \notin DOMAIN cache
     THEN /\ fetchers' = [fetchers EXCEPT ![f].pc = "raised"]
          /\ history' = Append(history, OpGet(f, FetchKey(f), KeyError, now))
          /\ cache' = cache
     ELSE LET cached == CacheGetValue(cache, FetchKey(f), now)
          IN  /\ fetchers' = [fetchers EXCEPT ![f] = AfterGet(fetchers[f], cached, Len(history) + 1)]
              /\ history' = Append(history, OpGet(f, FetchKey(f), cached, now))
              /\ cache' = CacheGetStore(cache, FetchKey(f), now)
  /\ running' = Holder(f, fetchers'[f].pc)
  /\ UNCHANGED << now, call, engineVars, filterVars >>

\* the API call of f returns data (NoData on every failure): fetch_schedule
\* caches the data if there is any and returns it; concurrent notes the calls
\* that were awaiting a request for the same key at that moment
FetchResumes(f, data) ==
  /\ fetchers[f].pc = "awaiting"
  /\ LoopFreeFor(f)
  /\ LET others == { h \in DOMAIN fetchers :
                       h # f /\ fetchers[h].pc = "awaiting" /\ FetchKey(h) = FetchKey(f) }
     IN  fetchers' = [fetchers EXCEPT ![f].pc = "returned", ![f].result = data,
                                      ![f].concurrent = others]
  /\ IF ShouldCache(data)
     THEN /\ cache' = CacheSet(cache, FetchKey(f), data, 24, now)
          /\ history' = Append(history, OpSet(f, FetchKey(f), data, 24, now))
     ELSE UNCHANGED << cache, history >>
  /\ running' = Holder(f, "returned")
  /\ UNCHANGED << now, call, engineVars, filterVars >>

\* cleanup_daily reaches line 208 and clears the cache
CleanupClears ==
  /\ running = 0
  /\ cache # EmptyCache
  /\ cache' = CacheClear(cache)
  /\ history' = Append(history, OpClear(now))
  /\ UNCHANGED << now, call, fetchers, running, engineVars, filterVars >>

NextFetch ==
  \/ \E f \in 1..MaxFetchers, group \in Groups : FetchStart(f, group)
  \/ \E f \in 1..MaxFetchers : GetContains(f)
  \/ \E f \in 1..MaxFetchers : GetEntry(f)
  \/ \E f \in 1..MaxFetchers, data \in UpstreamDocs \cup {NoData} : FetchResumes(f, data)
  \/ CleanupClears
  \/ Tick

SpecFetch == Init /\ [][NextFetch]_vars

(***************************************************************************)
(* The lesson filter: get_schedule_for_date over a drawn Monday table.     *)
(***************************************************************************)
\* the validity strings of the drawn pairs
DateStrs == {NoDateStr, BadDateStr, DateStr(0), DateStr(7)}

\* the table with one more pair under key: in the list of the key if the
\* table has it, else in a new entry at the end
RECURSIVE WithPair(_, _, _)
WithPair(day_data, key, pair) ==
  IF day_data = << >> THEN << << key, << pair >> >> >>
  ELSE IF Head(day_data)[1] = key
       THEN << << key, Append(Head(day_data)[2], pair) >> >> \o Tail(day_data)
       ELSE << Head(day_data) >> \o WithPair(Tail(day_data), key, pair)

RECURSIVE PairCount(_)
PairCount(day_data) ==
  IF day_data = << >> THEN 0 ELSE Len(Head(day_data)[2]) + PairCount(Tail(day_data))

\* one more pair in the Monday table of the document
AddPair(key, sd, ed) ==
  /\ filter_pc = "input"
  /\ PairCount(week_schedule.monday) < MaxPairs
  /\ week_schedule' = [week_schedule EXCEPT !.monday = WithPair(@, key, Pair("A", sd, ed))]
  /\ UNCHANGED << filter_pc, query_date, day_lessons >>
  /\ UNCHANGED << engineVars, serviceVars, fetchVars >>

\* get_schedule_for_date(schedule_data, date)
RunFilter(date) ==
  /\ filter_pc = "input"
  /\ filter_pc' = "done"
  /\ query_date' = date
  /\ day_lessons' = get_schedule_for_date(week_schedule, date)
  /\ week_schedule' = document_after(week_schedule, date)
  /\ UNCHANGED << engineVars, serviceVars, fetchVars >>

NextFilter ==
  \/ \E key \in SlotKeys, sd \in DateStrs, ed \in DateStrs : AddPair(key, sd, ed)
  \/ \E date \in FilterDates : RunFilter(date)

SpecFilter == Init /\ [][NextFilter]_vars

(***************************************************************************)
(* Properties of the interval engine (specification Spec).                 *)
(***************************************************************************)
Range(f) == { f[k] : k \in DOMAIN f }

EngineDone == pc = "done"

\* the clock range of a lesson in minutes under variant '0', << >> off the grid
LessonMinutes(lesson) ==
  LET time_slot == DictGet(SCHEDULE_TIMES["0"], lesson.pair_number, NoTimeSlot)
  IN  IF time_slot = NoTimeSlot THEN << >>
      ELSE << time_to_minutes(time_slot[1]), time_to_minutes(time_slot[2]) >>

\* entity g has a lesson that meets the time range [s, e)
InClass(g, s, e) ==
  \E k \in DOMAIN lessons[g] :
    LET m == LessonMinutes(lessons[g][k])
    IN  m # << >> /\ m[1] < e /\ m[2] > s

\* the labels of all the segments of entity g's timeline that cover [s, e)
CoverLabels(g, s, e) ==
  { timelines[g][k][3] :
      k \in { j \in DOMAIN timelines[g] : timelines[g][j][1] <= s /\ timelines[g][j][2] >= e } }

\* segments with start < end, contiguous, from day_start to day_end
Tiles(timeline) ==
  /\ timeline # << >>
  /\ timeline[1][1] = 540
  /\ timeline[Len(timeline)][2] = 1260
  /\ \A k \in DOMAIN timeline : timeline[k][1] < timeline[k][2]
  /\ \A k \in 1..(Len(timeline) - 1) : timeline[k][2] = timeline[k + 1][1]

\* C1: the timeline of every entity consists of segments with start < end
\* that are contiguous, do not overlap and exactly tile [540, 1260).
C1_TimelineTiles ==
  EngineDone => \A g \in DOMAIN timelines : Tiles(timelines[g])

\* C2: no returned free window meets the clock range of a lesson of any
\* compared entity, whatever the location labels are.
C2_NoWindowInClass ==
  EngineDone =>
    \A w \in Range(free_intervals) : \A g \in DOMAIN lessons : ~InClass(g, w.start, w.end)

\* two entities have a lesson in one slot of the grid at different locations
SameSlotOtherLocation ==
  \E g \in DOMAIN lessons, h \in DOMAIN lessons :
    \E i \in DOMAIN lessons[g], j \in DOMAIN lessons[h] :
      /\ g # h
      /\ lessons[g][i].pair_number = lessons[h][j].pair_number
      /\ LessonMinutes(lessons[g][i]) # << >>
      /\ lessons[g][i].location # lessons[h][j].location

C2_Witness ==
  EngineDone /\ free_intervals # << >> /\ SameSlotOtherLocation

\* C3: on every returned window each entity has a covering segment, and the
\* labels of the covering segments of all entities are all Unconstrained or are
\* all one and the same location; A busy [540, 630) at a location and B
\* without lessons yields no window.
C3_WindowLabelsAgree ==
  EngineDone =>
    /\ \A w \in Range(free_intervals) :
         LET labels == UNION { CoverLabels(g, w.start, w.end) : g \in DOMAIN timelines }
         IN  /\ \A g \in DOMAIN timelines : CoverLabels(g, w.start, w.end) # {}
             /\ \/ \A x \in labels : x = NoneLabel
                \/ \E l \in Locations : \A x \in labels : x = LocLabel(l)
    /\ lessons = << << Lesson(1, "A") >>, << >> >> => free_intervals = << >>

C3_Witness ==
  /\ EngineDone
  /\ Len(lessons) = 2
  /\ \E w \in Range(free_intervals) : w.label = "B"
  /\ \E g \in DOMAIN lessons : \E k \in DOMAIN lessons[g] : lessons[g][k].location = "A"

\* entity g's busy intervals k and k + 1 lie at different locations with a gap between
TransitGap(g, k) ==
  /\ k + 1 \in DOMAIN all_busy_intervals[g]
  /\ all_busy_intervals[g][k][3] # all_busy_intervals[g][k + 1][3]
  /\ all_busy_intervals[g][k][2] < all_busy_intervals[g][k + 1][1]

\* C4: the gap between two consecutive busy intervals of an entity at different
\* locations is a transit segment of its timeline, the label found for every
\* range inside the gap is that transit label, and no window meets the gap.
C4_TransitGapExcluded ==
  EngineDone =>
    \A g \in DOMAIN all_busy_intervals : \A k \in DOMAIN all_busy_intervals[g] :
      TransitGap(g, k) =>
        LET a == all_busy_intervals[g][k]
            b == all_busy_intervals[g][k + 1]
        IN  /\ << a[2], b[1], TransitLabel(a[3], b[3]) >> \in Range(timelines[g])
            /\ FirstCover(timelines[g], a[2], b[1]) = << TransitLabel(a[3], b[3]) >>
            /\ \A w \in Range(free_intervals) : ~(w.start < b[1] /\ w.end > a[2])

C4_Witness ==
  /\ EngineDone
  /\ Len(lessons) = 2
  /\ free_intervals # << >>
  /\ \E g \in DOMAIN all_busy_intervals : \E k \in DOMAIN all_busy_intervals[g] :
       TransitGap(g, k)

\* C5: a slice between two adjacent time points in which no entity has a
\* lesson, that is at least min_duration long and in which the label of every
\* entity is the empty-string location lies in a returned window.
C5_EmptyLocationAccepted ==
  EngineDone =>
    LET tp == TimePoints(timelines)
    IN  \A i \in 1..(Len(tp) - 1) :
          ( /\ Len(timelines) >= 2
            /\ tp[i + 1] - tp[i] >= min_duration
            /\ \A g \in DOMAIN lessons : ~InClass(g, tp[i], tp[i + 1])
            /\ \A g \in DOMAIN timelines :
                 FirstCover(timelines[g], tp[i], tp[i + 1]) = << LocLabel("") >> )
          => \E w \in Range(free_intervals) : w.start <= tp[i] /\ tp[i + 1] <= w.end

\* C6: every returned window has start < end and is at least min_duration long.
C6_WindowDuration ==
  EngineDone =>
    \A w \in Range(free_intervals) :
      w.start < w.end /\ w.end - w.start >= min_duration

\* a window is returned and a shorter range was dropped for its length alone
C6_Witness ==
  /\ EngineDone
  /\ min_duration = 60
  /\ free_intervals # << >>
  /\ Len(find_free_intervals_with_location(all_busy_intervals, 0)) > Len(free_intervals)

\* C7: no two returned windows touch or overlap, so that every window is a
\* whole run of accepted slices and ranges parted by a rejected slice are
\* windows of their own; the participant count of every window is the number
\* of compared entities.
C7_WindowsAreRuns ==
  EngineDone =>
    /\ \A i \in DOMAIN free_intervals, j \in DOMAIN free_intervals :
         i # j => \/ free_intervals[i].end < free_intervals[j].start
                  \/ free_intervals[j].end < free_intervals[i].start
    /\ \A w \in Range(free_intervals) : w.count = Len(lessons)

\* two windows parted by a rejected range, reported one by one
C7_Witness ==
  /\ EngineDone
  /\ Len(free_intervals) = 2
  /\ free_intervals[1].end < free_intervals[2].start
  /\ free_intervals[1].count = 2

OnGrid(lesson) == LessonMinutes(lesson) # << >>

\* C18: the run ends whatever lessons lie off the time grid, and the busy
\* intervals of every entity are those of its lessons on the grid: every
\* interval starts with such a lesson and ends with such a lesson, at their
\* location, every such lesson lies in an interval of its location, and the
\* intervals are what the lessons on the grid alone give; an entity without a
\* lesson on the grid has no busy interval and the timeline of a free day.
C18_OffGridDropped ==
  EngineDone =>
    \A g \in DOMAIN lessons :
      LET kept == SelectSeq(lessons[g], OnGrid)
      IN  /\ all_busy_intervals[g] = get_busy_intervals(kept, "0")
          /\ \A k \in DOMAIN all_busy_intervals[g] :
               LET b == all_busy_intervals[g][k]
               IN  /\ \E n \in DOMAIN kept :
                        LessonMinutes(kept[n])[1] = b[1] /\ kept[n].location = b[3]
                   /\ \E n \in DOMAIN kept :
                        LessonMinutes(kept[n])[2] = b[2] /\ kept[n].location = b[3]
          /\ \A n \in DOMAIN kept :
               \E k \in DOMAIN all_busy_intervals[g] :
                 LET b == all_busy_intervals[g][k]
                 IN  /\ b[1] <= LessonMinutes(kept[n])[1]
                     /\ LessonMinutes(kept[n])[2] <= b[2]
                     /\ b[3] = kept[n].location
          /\ kept = << >> =>
               /\ all_busy_intervals[g] = << >>
               /\ timelines[g] = << << 540, 1260, NoneLabel >> >>

\* one entity has a lesson off the grid before one on it, the other has a
\* lesson off the grid only; the run has ended and found a window
C18_Witness ==
  /\ EngineDone
  /\ Len(lessons) = 2
  /\ Len(lessons[1]) = 2
  /\ ~OnGrid(lessons[1][1])
  /\ OnGrid(lessons[1][2])
  /\ Len(lessons[2]) = 1
  /\ ~OnGrid(lessons[2][1])
  /\ Len(all_busy_intervals[1]) = 1
  /\ all_busy_intervals[2] = << >>

\* C20: the returned windows are in strictly ascending order of start minute.
C20_WindowsAscending ==
  EngineDone =>
    \A i \in DOMAIN free_intervals, j \in DOMAIN free_intervals :
      i < j => free_intervals[i].start < free_intervals[j].start

\* two windows with different labels were returned, the earlier one first
C20_Witness ==
  /\ EngineDone
  /\ Len(free_intervals) = 2
  /\ free_intervals[1].label # free_intervals[2].label
  /\ free_intervals[1].start < free_intervals[2].start

(***************************************************************************)
(* Properties of the service (specification SpecCompare).                  *)
(***************************************************************************)
\* C9: when fetch_schedule returns no data for a compared group, the call ends
\* with the unavailable result naming that group: it holds no window and no
\* window computation has run, whatever was fetched for the groups before it.
C9_FetchFailureAborts ==
  call.pc = "done" =>
    \A k \in DOMAIN call.fetched :
      ~call.fetched[k].ok =>
        /\ call.result = UnavailableResult(call.fetched[k].group)
        /\ call.result.windows = << >>
        /\ call.runs = 0

\* the schedule of the first group was fetched, that of the second was not
C9_Witness ==
  /\ call.pc = "done"
  /\ call.kind = "period"
  /\ Len(call.fetched) = 2
  /\ call.fetched[1].ok
  /\ ~call.fetched[2].ok
  /\ call.schedules # << >>
  /\ call.result = UnavailableResult(call.groups[2])

\* C10: a call with fewer than two groups ends in the step that starts it,
\* with the invalid-argument result: no request to the API is issued, the
\* cache is left as it was, nothing is fetched and no window computation runs.
C10_TooFewGroupsRejected ==
  [][ (call.pc = "idle" /\ call'.pc # "idle" /\ Len(call'.groups) < 2)
        => /\ call'.pc = "done"
           /\ call'.result = InvalidResult
           /\ call'.requests = 0
           /\ call'.fetched = << >>
           /\ call'.runs = 0
           /\ cache' = cache ]_vars

\* a call with one group was rejected while the cache held an entry
C10_Witness ==
  /\ call.pc = "done"
  /\ Len(call.groups) = 1
  /\ call.result = InvalidResult
  /\ cache # EmptyCache

\* the windows the single-date pipeline of compare_groups yields on date d
\* from the documents of the groups
SingleDateWindows(schedules, d, minDuration) ==
  FinishCompare([IdleCall EXCEPT
                   !.kind = "single", !.start_date = d, !.end_date = d,
                   !.min_duration = minDuration,
                   !.schedules = [g \in DOMAIN schedules |->
                                    get_schedule_for_date(schedules[g], d)]]).result.windows

\* C11: a finished compare_groups_period call over [start_date, end_date]
\* holds, in ascending order of date, exactly the dates of the range on which
\* the single-date pipeline yields windows from the same documents, each with
\* those windows; it has processed every date of the range, and none when
\* start_date > end_date.
C11_PeriodIsPerDate ==
  (call.pc = "done" /\ call.kind = "period" /\ call.result.kind = "ok") =>
    LET r == call.result.windows
        single(d) == SingleDateWindows(call.schedules, d, call.min_duration)
        range == { d \in call.start_date..call.end_date : (d - call.start_date) % 24 = 0 }
        dates == { d \in range : single(d) # << >> }
    IN  /\ \A k \in DOMAIN r : r[k].date \in dates /\ r[k].windows = single(r[k].date)
        /\ \A k \in 1..(Len(r) - 1) : r[k].date < r[k + 1].date
        /\ \A d \in dates : \E k \in DOMAIN r : r[k].date = d
        /\ call.runs = Cardinality(range)
        /\ call.start_date > call.end_date => r = << >> /\ call.runs = 0

\* a period of two dates, both with windows, that differ from date to date
C11_Witness ==
  /\ call.pc = "done"
  /\ call.kind = "period"
  /\ call.start_date = 0
  /\ call.end_date = 24
  /\ Len(call.result.windows) = 2
  /\ call.result.windows[1].windows # call.result.windows[2].windows

(***************************************************************************)
(* Properties of the cache under concurrent callers (specification         *)
(* SpecFetch).                                                             *)
(***************************************************************************)
\* no set(key) and no clear() among the operations between numbers i and j
Undisturbed(key, i, j) ==
  \A m \in (i + 1)..(j - 1) :
    ~(history[m].op = "clear" \/ (history[m].op = "set" /\ history[m].key = key))

\* C12: a get(k) that follows a set(k, v, ttl) with no set(k) and no clear()
\* in between returns v if less than ttl hours have passed since the set, and
\* a miss if ttl hours or more have passed.
C12_SetThenGet ==
  \A i \in DOMAIN history, j \in DOMAIN history :
    ( /\ i < j
      /\ history[i].op = "set"
      /\ history[j].op = "get"
      /\ history[j].key = history[i].key
      /\ Undisturbed(history[i].key, i, j) )
    => IF history[j].t - history[i].t < history[i].ttl
       THEN history[j].data = history[i].data
       ELSE history[j].data = NoData

\* a get twelve hours after the set of its key returned the stored document
C12_Witness ==
  \E i \in DOMAIN history, j \in DOMAIN history :
    /\ i < j
    /\ history[i].op = "set"
    /\ history[j].op = "get"
    /\ history[j].key = history[i].key
    /\ Undisturbed(history[i].key, i, j)
    /\ history[j].t > history[i].t
    /\ history[j].data = history[i].data

\* the operations from number i on run one after another on store: whether
\* every get returned what it returns there, and the store they leave
RECURSIVE SequentialRun(_, _, _)
SequentialRun(ops, i, store) ==
  IF i > Len(ops) THEN [ok |-> TRUE, store |-> store]
  ELSE LET o == ops[i]
       IN  IF o.op = "get"
           THEN IF o.data = CacheGetValue(store, o.key, o.t)
                THEN SequentialRun(ops, i + 1, CacheGetStore(store, o.key, o.t))
                ELSE [ok |-> FALSE, store |-> store]
           ELSE IF o.op = "set"
           THEN SequentialRun(ops, i + 1, CacheSet(store, o.key, o.data, o.ttl, o.t))
           ELSE SequentialRun(ops, i + 1, CacheClear(store))

\* C13: whatever the interleaving of the fetch_schedule coroutines and the
\* cleanup, the cache operations took effect one at a time: run one after
\* another in the order they completed in, every get returns what it returned
\* and the store ends as the cache is.
C13_Serialized ==
  LET r == SequentialRun(history, 1, EmptyCache)
  IN  r.ok /\ r.store = cache

\* the cleanup cleared the cache between the miss of a call and the set of
\* the data that call received
C13_Witness ==
  \E i \in DOMAIN history, j \in DOMAIN history :
    /\ i < j
    /\ history[i].op = "clear"
    /\ history[j].op = "set"
    /\ fetchers[history[j].by].missed < i

\* calls f and h for one key have both returned, and both had missed the cache
\* before either was resumed
Overlapped(f, h) ==
  /\ f # h
  /\ fetchers[f].pc = "returned"
  /\ fetchers[h].pc = "returned"
  /\ FetchKey(f) = FetchKey(h)
  /\ (h \in fetchers[f].concurrent \/ f \in fetchers[h].concurrent)

\* since both missed, the cache was used by f and h alone
Alone(f, h) ==
  \A m \in DOMAIN history :
    (m > fetchers[f].missed /\ m > fetchers[h].missed) => history[m].by \in {f, h}

\* C14: two overlapped calls for one key have each sent one request; the
\* cache then holds an entry for the key if and only if one of the requests
\* returned data, and its value is the data one of them returned.
C14_NoDeduplication ==
  \A f \in DOMAIN fetchers, h \in DOMAIN fetchers :
    (Overlapped(f, h) /\ Alone(f, h)) =>
      /\ fetchers[f].requests = 1
      /\ fetchers[h].requests = 1
      /\ FetchKey(f) \in DOMAIN cache
           <=> (fetchers[f].result # NoData \/ fetchers[h].result # NoData)
      /\ FetchKey(f) \in DOMAIN cache
           => cache[FetchKey(f)].data \in {fetchers[f].result, fetchers[h].result}

\* C14 as stated: after two overlapped calls for one key, each having sent one
\* request, the cache holds an entry for the key, whose value is the result of
\* one of the two.
C14_AlwaysOneEntry ==
  \A f \in DOMAIN fetchers, h \in DOMAIN fetchers :
    (Overlapped(f, h) /\ Alone(f, h)) =>
      /\ fetchers[f].requests = 1
      /\ fetchers[h].requests = 1
      /\ FetchKey(f) \in DOMAIN cache
      /\ cache[FetchKey(f)].data \in {fetchers[f].result, fetchers[h].result}

\* two overlapped calls received different documents; the cache holds the one
\* stored last
C14_Witness ==
  \E f \in DOMAIN fetchers, h \in DOMAIN fetchers :
    /\ Overlapped(f, h)
    /\ Alone(f, h)
    /\ fetchers[f].result = DocX
    /\ fetchers[h].result = DocY
    /\ h \in fetchers[f].concurrent
    /\ cache[FetchKey(f)].data = DocY

\* the step completes a get(k)
GetStep(k) ==
  /\ Len(history') = Len(history) + 1
  /\ history'[Len(history')].op = "get"
  /\ history'[Len(history')].key = k

\* the step completes a clear()
ClearStep ==
  /\ Len(history') = Len(history) + 1
  /\ history'[Len(history')].op = "clear"

\* the step completes a set(k)
SetStep(k) ==
  /\ Len(history') = Len(history) + 1
  /\ history'[Len(history')].op = "set"
  /\ history'[Len(history')].key = k

\* C15: a get(k) that finds the entry of k expired removes it and returns a
\* miss; a get(k) that returns a value returns the value of an entry that has
\* not expired; an expired entry stays in the store, as it is, through every
\* step but a get or a set of its key and a clear().
C15_LazyEviction ==
  [][ \A k \in { cache_key(g, FALSE) : g \in Groups } :
        /\ (k \in DOMAIN cache /\ ~(now < cache[k].expires_at)) =>
             /\ GetStep(k) => k \notin DOMAIN cache' /\ history'[Len(history')].data = NoData
             /\ ~(GetStep(k) \/ SetStep(k) \/ ClearStep) =>
                  k \in DOMAIN cache' /\ cache'[k] = cache[k]
        /\ (GetStep(k) /\ history'[Len(history')].data # NoData) =>
             /\ k \in DOMAIN cache
             /\ now < cache[k].expires_at
             /\ history'[Len(history')].data = cache[k].data ]_vars

\* an entry was looked up after its expiry: the get missed and the entry is gone
C15_Witness ==
  \E i \in DOMAIN history, j \in DOMAIN history :
    /\ i < j
    /\ history[i].op = "set"
    /\ history[j].op = "get"
    /\ history[j].key = history[i].key
    /\ Undisturbed(history[i].key, i, j)
    /\ history[j].t - history[i].t >= history[i].ttl
    /\ history[j].data = NoData
    /\ history[j].key \notin DOMAIN cache
    /\ j = Len(history)

\* C16: the store is empty when clear() has run, and a get(k) that follows a
\* clear() with no set(k) in between returns a miss, whatever the expiry times
\* of the entries cleared.
C16_ClearEmpties ==
  /\ (history # << >> /\ history[Len(history)].op = "clear") => cache = EmptyCache
  /\ \A i \in DOMAIN history, j \in DOMAIN history :
       ( /\ i < j
         /\ history[i].op = "clear"
         /\ history[j].op = "get"
         /\ \A m \in (i + 1)..(j - 1) :
              ~(history[m].op = "set" /\ history[m].key = history[j].key) )
       => history[j].data = NoData

\* an entry was set, cleared within its ttl and looked up within its ttl
C16_Witness ==
  \E h \in DOMAIN history, i \in DOMAIN history, j \in DOMAIN history :
    /\ h < i /\ i < j
    /\ history[h].op = "set"
    /\ history[i].op = "clear"
    /\ history[j].op = "get"
    /\ history[j].key = history[h].key
    /\ history[j].t - history[h].t < history[h].ttl
    /\ history[j].data = NoData

(***************************************************************************)
(* Properties of the lesson filter (specification SpecFilter).             *)
(***************************************************************************)
FilterDone == filter_pc = "done"

\* the calendar day of the datetime asked about, and the table of its weekday
QueryDay == query_date \div 24
QueryTable == DictGet(week_schedule, weekday_names[QueryDay % 7], << >>)

\* the places (entry, pair) of the table, and the lesson of a place as
\* get_schedule_for_date returns it
Places(table) == UNION { { << m, n >> : n \in DOMAIN table[m][2] } : m \in DOMAIN table }
LessonAt(table, q) == ("pair_number" :> PairKeyInt[table[q[1]][1]]) @@ table[q[1]][2][q[2]]

\* how often x occurs in the returned list, and at how many places of the table
Returned(x) == Cardinality({ i \in DOMAIN day_lessons : day_lessons[i] = x })
Tabled(x) == Cardinality({ q \in Places(QueryTable) : LessonAt(QueryTable, q) = x })

Lacking(x) == x.start_date = NoDateStr \/ x.end_date = NoDateStr
Dated(x) == x.start_date.kind = "date" /\ x.end_date.kind = "date"
Unparsable(x) == x.start_date = BadDateStr \/ x.end_date = BadDateStr

\* C17: the list returned for a date holds lessons of the table of the date's
\* weekday only; of these, a lesson with a start and an end date is returned
\* if and only if start <= date <= end as calendar days, and a lesson lacking
\* one of the two is returned whatever the date.
C17_ValidityWindow ==
  FilterDone =>
    /\ \A i \in DOMAIN day_lessons : Tabled(day_lessons[i]) > 0
    /\ \A q \in Places(QueryTable) :
         LET x == LessonAt(QueryTable, q)
         IN  /\ Dated(x) =>
                  Returned(x) = IF x.start_date.day <= QueryDay /\ QueryDay <= x.end_date.day
                                THEN Tabled(x) ELSE 0
             /\ Lacking(x) => Returned(x) = Tabled(x)

\* asked about 10:00 of day 7: the lesson valid from day 0 to day 7 is
\* returned, the lesson valid on day 0 only is not
C17_Witness ==
  /\ FilterDone
  /\ query_date = 178
  /\ \E q \in Places(QueryTable) : LessonAt(QueryTable, q).end_date = DateStr(0)
                                   /\ Dated(LessonAt(QueryTable, q))
  /\ Len(day_lessons) = 1
  /\ day_lessons[1].start_date = DateStr(0)
  /\ day_lessons[1].end_date = DateStr(7)

\* C19: a lesson with a start or end date that cannot be parsed is returned
\* for every date of its weekday, and the call returns its list all the same:
\* the list holds these lessons and the other lessons that are held on the
\* date, and nothing else.
C19_UnparsableAlwaysValid ==
  FilterDone =>
    /\ \A q \in Places(QueryTable) :
         Unparsable(LessonAt(QueryTable, q)) =>
           Returned(LessonAt(QueryTable, q)) = Tabled(LessonAt(QueryTable, q))
    /\ Len(day_lessons) =
         Cardinality({ q \in Places(QueryTable) :
                         LET x == LessonAt(QueryTable, q)
                         IN  \/ Unparsable(x)
                             \/ Lacking(x)
                             \/ x.start_date.day <= QueryDay /\ QueryDay <= x.end_date.day })

\* asked about day 7: the lesson with an unparsable start and the end on day 0
\* is returned, the lesson valid on day 0 only is not
C19_Witness ==
  /\ FilterDone
  /\ query_date = 168
  /\ PairCount(week_schedule.monday) = 2
  /\ Len(day_lessons) = 1
  /\ day_lessons[1].start_date = BadDateStr
  /\ day_lessons[1].end_date = DateStr(0)

(***************************************************************************)
(* More properties of the service (specification SpecCompare).             *)
(***************************************************************************)
\* the busy-interval lists of a list of lesson lists
BusyOf(lesson_lists) ==
  [g \in DOMAIN lesson_lists |-> get_busy_intervals(lesson_lists[g], "0")]

\* C21: whatever the cache holds and whatever calls came before, the windows
\* a finished call has computed from its busy-interval lists are the windows
\* any other run of the intersector returns for the same lists and the same
\* min_duration, in the same order, whatever order that run iterates its sets
\* in.
C21_Deterministic ==
  (call.pc = "done" /\ call.result.kind = "ok") =>
    \A seed \in HashSeeds :
      IF call.kind = "single"
      THEN find_free_intervals_iterated(BusyOf(call.schedules), call.min_duration, seed)
             = call.result.windows
      ELSE \A k \in DOMAIN call.result.windows :
             LET day_schedules ==
                   [g \in DOMAIN call.schedules |->
                      get_schedule_for_date(call.schedules[g],
                                            call.result.windows[k].date)]
             IN  find_free_intervals_iterated(BusyOf(day_schedules), call.min_duration, seed)
                   = call.result.windows[k].windows

\* a call served from the cache alone, filled by an earlier call, has
\* returned two windows
C21_Witness ==
  /\ call.pc = "done"
  /\ call.kind = "single"
  /\ call.requests = 0
  /\ cache # EmptyCache
  /\ Len(call.result.windows) = 2

(***************************************************************************)
(* More properties of the interval engine (specification Spec).            *)
(***************************************************************************)
\* the segments of entity g's timeline that cover [s, e), lines 732-733
Covering(g, s, e) ==
  { k \in DOMAIN timelines[g] : timelines[g][k][1] <= s /\ timelines[g][k][2] >= e }

\* the candidate slices: the pairs of adjacent boundary points, lines 721-723
Slices ==
  LET sorted_points == TimePoints(timelines)
  IN  { << sorted_points[i], sorted_points[i + 1] >> : i \in 1..(Len(sorted_points) - 1) }

\* C22: for every candidate slice between two adjacent boundary points and
\* every compared entity, exactly one segment of the entity's timeline covers
\* the slice.
C22_OneCoveringSegment ==
  EngineDone =>
    \A slice \in Slices : \A g \in DOMAIN timelines :
      Cardinality(Covering(g, slice[1], slice[2])) = 1

\* the clock ranges of the lessons of entity g on the grid held at location l
\* that overlap or touch [s, e]
Joined(g, l, s, e) ==
  { LessonMinutes(lessons[g][k]) :
      k \in { j \in DOMAIN lessons[g] :
                /\ OnGrid(lessons[g][j])
                /\ lessons[g][j].location = l
                /\ LessonMinutes(lessons[g][j])[1] <= e
                /\ LessonMinutes(lessons[g][j])[2] >= s } }

\* C23: the busy intervals of an entity are in ascending order of start;
\* every interval is the union of the lessons of its own location that
\* overlap or touch it, from the least of their starts to the greatest of
\* their ends, so that no lesson of another location is merged into it; every
\* lesson on the grid lies in an interval of its own location; and no two
\* intervals of one location overlap or touch.
C23_MergeSameLocationOnly ==
  EngineDone =>
    \A g \in DOMAIN all_busy_intervals :
      LET intervals == all_busy_intervals[g]
      IN  /\ \A k \in 1..(Len(intervals) - 1) : intervals[k][1] <= intervals[k + 1][1]
          /\ \A k \in DOMAIN intervals :
               LET joined == Joined(g, intervals[k][3], intervals[k][1], intervals[k][2])
               IN  /\ joined # {}
                   /\ \A m \in joined : intervals[k][1] <= m[1] /\ m[2] <= intervals[k][2]
                   /\ \E m \in joined : m[1] = intervals[k][1]
                   /\ \E m \in joined : m[2] = intervals[k][2]
          /\ \A n \in DOMAIN lessons[g] :
               OnGrid(lessons[g][n]) =>
                 \E k \in DOMAIN intervals :
                   /\ intervals[k][3] = lessons[g][n].location
                   /\ intervals[k][1] <= LessonMinutes(lessons[g][n])[1]
                   /\ LessonMinutes(lessons[g][n])[2] <= intervals[k][2]
          /\ \A i, j \in DOMAIN intervals :
               (i < j /\ intervals[i][3] = intervals[j][3]) =>
                 intervals[j][1] > intervals[i][2]

\* an entity with three lessons in one slot, two of them at one location and
\* the third without a location: two busy intervals
C23_Witness ==
  /\ EngineDone
  /\ \E g \in DOMAIN lessons :
       /\ Len(lessons[g]) = 3
       /\ \A k \in 1..3 : lessons[g][k].pair_number = 2
       /\ { lessons[g][k].location : k \in 1..3 } = {"", "A"}
       /\ Len(all_busy_intervals[g]) = 2

\* the timeline of entity g holds the segment from s to e with the label, and
\* that label is the one looked up for [s, e)
Labelled(g, s, e, label) ==
  /\ << s, e, label >> \in Range(timelines[g])
  /\ FirstCover(timelines[g], s, e) = << label >>

\* entity g has a busy interval with a location
HasLocation(g) == locations_in_day(all_busy_intervals[g]) # {}

\* C24: in the timeline of an entity with at least one non-empty location the
\* gap before the first busy interval carries the location of the first
\* interval, every busy interval its own location, the gap between two
\* consecutive intervals their location when they have the same one and the
\* transit label from the one to the other when they differ, and the gap
\* after the last interval up to 1260 the location of the last interval.
C24_TimelineLabels ==
  EngineDone =>
    \A g \in DOMAIN all_busy_intervals :
      HasLocation(g) =>
        LET intervals == all_busy_intervals[g]
            first == intervals[1]
            last == intervals[Len(intervals)]
        IN  /\ 540 < first[1] => Labelled(g, 540, first[1], LocLabel(first[3]))
            /\ \A k \in DOMAIN intervals :
                 /\ << intervals[k][1], intervals[k][2], LocLabel(intervals[k][3]) >>
                      \in Range(timelines[g])
                 /\ (\A j \in DOMAIN intervals : intervals[j][1] = intervals[k][1] => j = k)
                      => Labelled(g, intervals[k][1], intervals[k][2],
                                  LocLabel(intervals[k][3]))
            /\ \A k \in 1..(Len(intervals) - 1) :
                 intervals[k][2] < intervals[k + 1][1] =>
                   Labelled(g, intervals[k][2], intervals[k + 1][1],
                            IF intervals[k][3] = intervals[k + 1][3]
                            THEN LocLabel(intervals[k][3])
                            ELSE TransitLabel(intervals[k][3], intervals[k + 1][3]))
            /\ last[2] < 1260 => Labelled(g, last[2], 1260, LocLabel(last[3]))

\* one entity with a gap before its first lesson and a gap between two
\* lessons at different locations, another with a gap after its last lesson
C24_Witness ==
  /\ EngineDone
  /\ \E g \in DOMAIN all_busy_intervals :
       /\ Len(all_busy_intervals[g]) = 2
       /\ 540 < all_busy_intervals[g][1][1]
       /\ TransitGap(g, 1)
  /\ \E g \in DOMAIN all_busy_intervals :
       /\ HasLocation(g)
       /\ all_busy_intervals[g][Len(all_busy_intervals[g])][2] < 1260

\* C25: the timeline of an entity without busy intervals is the single
\* segment (540, 1260, None); the timeline of an entity with at least one
\* busy interval, all without a location, is the single segment
\* (540, 1260, ""), and the label of "" is not the label None.
C25_SingleSegmentDays ==
  EngineDone =>
    /\ LocLabel("") # NoneLabel
    /\ \A g \in DOMAIN all_busy_intervals :
         /\ all_busy_intervals[g] = << >> =>
              timelines[g] = << << 540, 1260, NoneLabel >> >>
         /\ ( /\ all_busy_intervals[g] # << >>
              /\ \A k \in DOMAIN all_busy_intervals[g] : all_busy_intervals[g][k][3] = "" )
              => timelines[g] = << << 540, 1260, LocLabel("") >> >>

\* one entity without busy intervals, another with two, both without a location
C25_Witness ==
  /\ EngineDone
  /\ \E g \in DOMAIN all_busy_intervals : all_busy_intervals[g] = << >>
  /\ \E g \in DOMAIN all_busy_intervals :
       /\ Len(all_busy_intervals[g]) = 2
       /\ \A k \in 1..2 : all_busy_intervals[g][k][3] = ""

\* entity g has a lesson, and no lesson of it has a location
LessonsWithoutLocation(g) ==
  /\ lessons[g] # << >>
  /\ \A k \in DOMAIN lessons[g] : lessons[g][k].location = ""

\* entity g has a lesson in a slot of the grid, and no lesson of it in a slot
\* of the grid has a location
GridLessonsWithoutLocation(g) ==
  /\ \E k \in DOMAIN lessons[g] : OnGrid(lessons[g][k])
  /\ \A k \in DOMAIN lessons[g] : OnGrid(lessons[g][k]) => lessons[g][k].location = ""

HeldOnQueryDay(x) ==
  \/ Unparsable(x)
  \/ Lacking(x)
  \/ x.start_date.day <= QueryDay /\ QueryDay <= x.end_date.day

\* C26: the returned lessons are in ascending order of slot number, and
\* every occurrence in the table that is held on the date is returned, as
\* often as the table has it, several occurrences of one slot included.
C26_SortedAllRetained ==
  FilterDone =>
    /\ \A i \in 1..(Len(day_lessons) - 1) :
         day_lessons[i].pair_number <= day_lessons[i + 1].pair_number
    /\ \A q \in Places(QueryTable) :
         HeldOnQueryDay(LessonAt(QueryTable, q)) =>
           Returned(LessonAt(QueryTable, q)) = Tabled(LessonAt(QueryTable, q))
    /\ Len(day_lessons) =
         Cardinality({ q \in Places(QueryTable) : HeldOnQueryDay(LessonAt(QueryTable, q)) })

\* the table has the same occurrence twice under slot "2": both are returned
C26_Witness ==
  /\ FilterDone
  /\ QueryTable = week_schedule.monday
  /\ Len(QueryTable) = 1
  /\ QueryTable[1][1] = "2"
  /\ Len(QueryTable[1][2]) = 2
  /\ QueryTable[1][2][1] = QueryTable[1][2][2]
  /\ Len(day_lessons) = 2
  /\ day_lessons[1] = day_lessons[2]

\* the pairs of a document
DocumentPairs(schedule_data) ==
  UNION { UNION { Range(schedule_data[name][m][2]) : m \in DOMAIN schedule_data[name] }
          : name \in DOMAIN schedule_data }

ResumesWith(f, data) ==
  /\ fetchers[f].pc = "awaiting"
  /\ fetchers'[f].pc = "returned"
  /\ fetchers'[f].result = data

\* the cache has been cleared since call f missed it
ClearedSinceMiss(f) ==
  \E c \in DOMAIN history : c > fetchers[f].missed /\ history[c].op = "clear"

\* C29: clear() neither cancels nor invalidates the calls that are awaiting
\* the API: the step that clears the cache leaves every call where it is, and
\* a call that is resumed with data stores it under its key, also when the
\* cache has been cleared since the call missed it.
C29_ClearKeepsInFlight ==
  [][ /\ (Len(history') = Len(history) + 1 /\ history'[Len(history')].op = "clear")
        => fetchers' = fetchers
      /\ \A f \in DOMAIN fetchers : \A data \in UpstreamDocs :
           ResumesWith(f, data) =>
             /\ FetchKey(f) \in DOMAIN cache'
             /\ cache'[FetchKey(f)].data = data
             /\ ClearedSinceMiss(f) =>
                  history' = Append(history, OpSet(f, FetchKey(f), data, 24, now)) ]_vars

\* the cache holds an entry stored by a call that had missed the cache, and
\* so had sent its request, before the most recent clear
C29_Witness ==
  \E f \in DOMAIN fetchers, c \in DOMAIN history, j \in DOMAIN history :
    /\ fetchers[f].pc = "returned"
    /\ 0 < fetchers[f].missed
    /\ fetchers[f].missed < c
    /\ c < j
    /\ history[c].op = "clear"
    /\ \A m \in (c + 1)..Len(history) : history[m].op # "clear"
    /\ history[j].op = "set"
    /\ history[j].by = f
    /\ FetchKey(f) \in DOMAIN cache
    /\ cache[FetchKey(f)].data = fetchers[f].result
    /\ Undisturbed(FetchKey(f), j, Len(history) + 1)

\* a call has stored data under the key of call f since f missed the cache
StoredSinceMiss(f) ==
  \E m \in DOMAIN history :
    /\ m > fetchers[f].missed
    /\ history[m].op = "set"
    /\ history[m].key = FetchKey(f)

\* call h is about to look its key up; call f, the last call for the key
\* before h, has returned without data
NextAfterFailure(f, h) ==
  /\ f < h
  /\ fetchers[f].pc = "returned"
  /\ fetchers[f].result = NoData
  /\ fetchers[h].pc = "get"
  /\ FetchKey(h) = FetchKey(f)
  /\ \A g \in (f + 1)..(h - 1) : FetchKey(g) # FetchKey(f)

\* the step takes call h from the lookup straight to a new request
SendsRequest(h) ==
  /\ fetchers'[h].pc = "awaiting"
  /\ fetchers'[h].requests = 1

\* C30 as stated: when fetch_schedule returns no data for a key the cache
\* holds no entry for the key, and the next fetch_schedule for the key sends
\* a new request.
C30_NoEntryAfterFailure ==
  [][ \A f \in DOMAIN fetchers :
        /\ ResumesWith(f, NoData) => FetchKey(f) \notin DOMAIN cache'
        /\ \A h \in DOMAIN fetchers :
             (NextAfterFailure(f, h) /\ fetchers'[h].pc # "get") => SendsRequest(h) ]_vars

\* C30 amended: fetch_schedule returning no data stores nothing, and no
\* entry of the cache ever holds "no data"; unless another call has stored
\* data under the key since this call missed, the cache then holds no entry
\* for the key and the next fetch_schedule for the key sends a new request.
C30_FailureNotCached ==
  [][ /\ \A k \in DOMAIN cache' : cache'[k].data # NoData
      /\ \A f \in DOMAIN fetchers :
           /\ ResumesWith(f, NoData) =>
                /\ cache' = cache
                /\ history' = history
                /\ ~StoredSinceMiss(f) => FetchKey(f) \notin DOMAIN cache'
           /\ \A h \in DOMAIN fetchers :
                (NextAfterFailure(f, h) /\ fetchers'[h].pc # "get" /\ ~StoredSinceMiss(f))
                  => SendsRequest(h) ]_vars

\* the first call returned without data and the cache is empty; the second
\* call, for the same key, has sent a request of its own
C30_Witness ==
  /\ fetchers[1].pc = "returned"
  /\ fetchers[1].result = NoData
  /\ fetchers[1].concurrent = {}
  /\ fetchers[2].pc = "awaiting"
  /\ fetchers[2].requests = 1
  /\ FetchKey(2) = FetchKey(1)
  /\ fetchers[2].missed > fetchers[1].missed
  /\ cache = EmptyCache

====
